---- MODULE Spec2Model ----
(***************************************************************************)
(* A model of ThreeScalePY.py: the three client classes ThreeScaleAuthorize,*)
(* ThreeScaleAuthorizeUserKey and ThreeScaleReport, their public methods    *)
(* authorize(), build_auth_response() and report(), the transaction encoder *)
(* and the decoding of the authorize XML body.                              *)
(*                                                                          *)
(* Strings are sequences of pieces (a piece is a literal of a format string *)
(* or one character of a caller-supplied value), so that string             *)
(* concatenation is \o and the structure of a built string can be stated.   *)
(* An XML text is a sequence of tags and text runs; fromstring() checks its *)
(* well-formedness and the element queries walk it.                         *)
(***************************************************************************)
EXTENDS Naturals, Sequences, FiniteSets, TLC

(***************************************************************************)
(* Bounds of the model.                                                     *)
(***************************************************************************)
MaxTrans == 2
MaxReports == 2

(***************************************************************************)
(* Python values.  None and strings (optional values).                      *)
(***************************************************************************)
None == [some |-> FALSE, v |-> ""]
Some(s) == [some |-> TRUE, v |-> s]
\* Python truth of an optional string: None and '' are false
Truthy(x) == x.some /\ x.v # ""

Last(s) == s[Len(s)]
Front(s) == SubSeq(s, 1, Len(s) - 1)
MinOf(S) == CHOOSE m \in S : \A o \in S : m <= o

\* the members of a set of naturals as an ascending sequence
RECURSIVE Ascending(_)
Ascending(S) ==
    IF S = {} THEN <<>>
    ELSE LET m == MinOf(S) IN <<m>> \o Ascending(S \ {m})

\* does the sequence sub occur in s as a run of consecutive entries
Occurrences(s, sub) ==
    {i \in 1..(Len(s) + 1 - Len(sub)) : SubSeq(s, i, i + Len(sub) - 1) = sub}
Contains(s, sub) == Occurrences(s, sub) # {}

(***************************************************************************)
(* The exception classes.  An exception of any other class (KeyError,       *)
(* AttributeError, TypeError) is a built-in one.                            *)
(***************************************************************************)
ClientErrors ==
    {"ThreeScaleException", "ThreeScaleServerError", "ThreeScaleConnectionError"}
Exc(c, m) == [cls |-> c, msg |-> m]
NoExc == Exc("", <<>>)
\* isinstance(e, ThreeScaleException)
IsClientError(e) == e.cls \in ClientErrors

(***************************************************************************)
(* XML text: a sequence of tokens.                                          *)
(***************************************************************************)
Open(n, a) == [k |-> "open", name |-> n, attrs |-> a, text |-> ""]
Close(n) == [k |-> "close", name |-> n, attrs |-> <<>>, text |-> ""]
Text(t) == [k |-> "text", name |-> "", attrs |-> <<>>, text |-> t]

\* the parser's scan: tags nest and close in order, one root element,
\* no character data outside it
RECURSIVE Balanced(_, _, _, _)
Balanced(toks, i, stack, seenRoot) ==
    IF i > Len(toks) THEN stack = <<>> /\ seenRoot
    ELSE LET t == toks[i] IN
        IF t.k = "open" THEN
            IF stack = <<>> /\ seenRoot THEN FALSE
            ELSE Balanced(toks, i + 1, Append(stack, t.name), TRUE)
        ELSE IF t.k = "close" THEN
            IF stack # <<>> /\ Last(stack) = t.name
            THEN Balanced(toks, i + 1, Front(stack), seenRoot)
            ELSE FALSE
        ELSE
            IF stack = <<>> THEN FALSE
            ELSE Balanced(toks, i + 1, stack, seenRoot)

\* fromstring(text) returns the root element, or raises
WellFormed(toks) == Balanced(toks, 1, <<>>, FALSE)

\* the number of elements open before position j
Depth(toks, j) ==
    Cardinality({i \in 1..(j - 1) : toks[i].k = "open"})
    - Cardinality({i \in 1..(j - 1) : toks[i].k = "close"})

\* the position of the end tag of the element that starts at i
EndOf(toks, i) ==
    MinOf({j \in (i + 1)..Len(toks) :
              toks[j].k = "close" /\ Depth(toks, j) = Depth(toks, i) + 1})

\* the child elements of the element at i, as start positions
Children(toks, i) ==
    {j \in (i + 1)..(EndOf(toks, i) - 1) :
        toks[j].k = "open" /\ Depth(toks, j) = Depth(toks, i) + 1}

\* Element.findtext(tag): the text of the first child named tag ('' when it
\* has none), None when there is no such child
findtext(toks, i, tag) ==
    LET c == {j \in Children(toks, i) : toks[j].name = tag} IN
    IF c = {} THEN None
    ELSE LET j == MinOf(c) IN
         IF toks[j + 1].k = "text" THEN Some(toks[j + 1].text) ELSE Some("")

\* Element.findall('a/b'): the grandchildren named b under children named a,
\* in document order
findall(toks, i, a, b) ==
    Ascending(UNION {{j \in Children(toks, p) : toks[j].name = b} :
                        p \in {q \in Children(toks, i) : toks[q].name = a}})

\* Element.attrib: has_key and []
HasAttrib(tok, n) == \E x \in 1..Len(tok.attrs) : tok.attrs[x][1] = n
Attrib(tok, n) ==
    tok.attrs[MinOf({x \in 1..Len(tok.attrs) : tok.attrs[x][1] = n})][2]

(***************************************************************************)
(* Strings as sequences of pieces.                                          *)
(***************************************************************************)
DigitChar == <<"0", "1", "2", "3", "4", "5", "6", "7", "8", "9">>

\* str(n) / "%d" % n for a natural number: its decimal digits
RECURSIVE Decimal(_)
Decimal(n) ==
    IF n < 10 THEN <<DigitChar[n + 1]>>
    ELSE Decimal(n \div 10) \o <<DigitChar[(n % 10) + 1]>>

\* sep.join(parts), every part one piece
RECURSIVE Join(_, _)
Join(parts, sep) ==
    IF Len(parts) = 0 THEN <<>>
    ELSE IF Len(parts) = 1 THEN <<parts[1]>>
    ELSE <<parts[1], sep>> \o Join(SubSeq(parts, 2, Len(parts)), sep)

(***************************************************************************)
(* class ThreeScale: the URLs.                                              *)
(***************************************************************************)
domain == "su1.3scale.net"
protocol == "http"
get_base_url == <<protocol, "://", domain>>
get_auth_url == get_base_url \o <<"/transactions/authorize.xml">>
get_report_url == get_base_url \o <<"/transactions.xml">>

(***************************************************************************)
(* The Transport (urllib2.urlopen): what one call can come back with.       *)
(*   ok        a response with a 2xx status and a body                      *)
(*   HTTPError a response with any other status (urllib2 raises it)         *)
(*   URLError  no connection: unreachable host, refused, DNS, connect       *)
(*             timeout                                                      *)
(*   other     any other exception of the library                           *)
(***************************************************************************)
Outcome(k, c, b) == [kind |-> k, code |-> c, body |-> b]
NoOutcome == Outcome("none", 0, <<>>)
OkCodes == {200, 201}
ErrorCodes == {404, 409, 500}

\* str(err) of an urllib2.HTTPError: 'HTTP Error <code>: <reason phrase>'
StrHTTPError(code) == <<"HTTP Error ">> \o Decimal(code)

(***************************************************************************)
(* Response bodies the service may send, as XML token sequences.            *)
(***************************************************************************)
MetricName(k) == IF k = 1 THEN "hits" ELSE IF k = 2 THEN "storage" ELSE "transfer"

Leaf(n, t) == <<Open(n, <<>>), Text(t), Close(n)>>

\* the k-th usage_report element; every second one has no max_value child,
\* and dropAttr leaves the metric attribute out
ReportElem(k, dropAttr) ==
    <<Open("usage_report",
           IF dropAttr THEN << <<"period", "day">> >>
           ELSE << <<"metric", MetricName(k)>>, <<"period", "day">> >>)>>
    \o Leaf("period_start", "2021-03-04") \o Leaf("period_end", "2021-03-05")
    \o (IF k % 2 = 0 THEN <<>> ELSE Leaf("max_value", "5"))
    \o Leaf("current_value", DigitChar[(k % 10) + 1])
    \o <<Close("usage_report")>>

RECURSIVE ReportElems(_, _, _)
ReportElems(k, n, dropLast) ==
    IF k > n THEN <<>>
    ELSE ReportElem(k, dropLast /\ k = n) \o ReportElems(k + 1, n, dropLast)

BodyOf(hasPlan, hasReason, n, dropLast, truncated) ==
    <<Open("status", <<>>)>>
    \o (IF hasPlan THEN Leaf("plan", "Basic") ELSE <<>>)
    \o (IF hasReason THEN Leaf("reason", "usage limits exceeded") ELSE <<>>)
    \o (IF n > 0
        THEN <<Open("usage_reports", <<>>)>> \o ReportElems(1, n, dropLast)
             \o <<Close("usage_reports")>>
        ELSE <<>>)
    \o (IF truncated THEN <<>> ELSE <<Close("status")>>)

Bodies ==
    {BodyOf(p, r, n, d, t) :
        p \in BOOLEAN, r \in BOOLEAN, n \in 0..MaxReports, d \in BOOLEAN, t \in BOOLEAN}
    \cup {<<>>}

GetOutcomes ==
    {Outcome("ok", c, b) : c \in OkCodes, b \in Bodies}
    \cup {Outcome("HTTPError", 409, b) : b \in Bodies}
    \cup {Outcome("HTTPError", c, <<>>) : c \in ErrorCodes \ {409}}
    \cup {Outcome("URLError", 0, <<>>), Outcome("other", 0, <<>>)}

(***************************************************************************)
(* The state.                                                               *)
(***************************************************************************)
VARIABLES
    cls,            \* the class of the client object
    provider_key, app_id, app_key, user_key,    \* ThreeScale.__init__
    zone,           \* what %z of time.strftime gives on this platform
    authorized,     \* self.authorized
    auth_xml,       \* self.auth_xml: absent before authorize(), None or a body
    op,             \* the last public method called
    arg,            \* its argument (report's transactions)
    ret,            \* how it ended: "None", "True", "False", "result", "raise"
    exc,            \* the exception it raised
    calls,          \* how many times it called the Transport
    outcome,        \* what the Transport came back with in the last
                    \* authorize() or report(); none if that did not call it
    resp,           \* the ThreeScaleAuthorizeResponse it returned
    data            \* the POST body it built

creds == <<cls, provider_key, app_id, app_key, user_key, zone>>
vars == <<cls, provider_key, app_id, app_key, user_key, zone, authorized, auth_xml,
          op, arg, ret, exc, calls, outcome, resp, data>>

Xml(st, toks) == [st |-> st, toks |-> toks]
NoResp == [plan |-> None, reason |-> None, usage_reports |-> <<>>]
NoArg == [iterable |-> FALSE, elems |-> <<>>]

(***************************************************************************)
(* validate(): the list err of both authorization classes.                  *)
(***************************************************************************)
\* validate_app raising at the first missing field
validate_app_first_only(appId, providerKey) ==
    IF ~Truthy(appId) THEN <<"App Id not defined">>
    ELSE IF ~Truthy(providerKey) THEN <<"Provider key not defined">>
    ELSE <<>>

\* ThreeScaleAuthorize.validate
validate_app(appId, providerKey) ==
    (IF ~Truthy(appId) THEN <<"App Id not defined">> ELSE <<>>)
    \o (IF ~Truthy(providerKey) THEN <<"Provider key not defined">> ELSE <<>>)

\* ThreeScaleAuthorizeUserKey.validate
validate_user_key(userKey, providerKey) ==
    (IF ~Truthy(userKey) THEN <<"User key defined">> ELSE <<>>)
    \o (IF ~Truthy(providerKey) THEN <<"Provider key not defined">> ELSE <<>>)

\* if len(err): raise ThreeScaleException(': '.join(err))
validate_raise(err) == Exc("ThreeScaleException", Join(err, ": "))

\* the whole method, called on its own
validate(err) ==
    /\ op' = "validate"
    /\ ret' = (IF err # <<>> THEN "raise" ELSE "None")
    /\ exc' = (IF err # <<>> THEN validate_raise(err) ELSE NoExc)
    /\ calls' = 0
    /\ resp' = NoResp
    /\ UNCHANGED <<creds, authorized, auth_xml, arg, data, outcome>>

\* ThreeScaleAuthorize.validate
Validate ==
    /\ cls = "ThreeScaleAuthorize"
    /\ validate(validate_app(app_id, provider_key))

\* ThreeScaleAuthorizeUserKey.validate
ValidateUserKey ==
    /\ cls = "ThreeScaleAuthorizeUserKey"
    /\ validate(validate_user_key(user_key, provider_key))

(***************************************************************************)
(* authorize(): the try block around urllib2.urlopen, the same in both      *)
(* classes.  The result is the stored pair and how the call ends.           *)
(***************************************************************************)
Ended(a, x, r, e) == [authorized |-> a, auth_xml |-> x, ret |-> r, exc |-> e]

\* authorize_try with the 409 test left out: every HTTPError is a server error
authorize_try_no_409(a0, x0, o) ==
    IF o.kind = "ok" THEN
        [authorized |-> TRUE, auth_xml |-> Xml("str", o.body), ret |-> "True",
         exc |-> NoExc]
    ELSE
        [authorized |-> a0, auth_xml |-> x0, ret |-> "raise",
         exc |-> Exc(IF o.kind = "HTTPError" THEN "ThreeScaleServerError"
                     ELSE IF o.kind = "URLError" THEN "ThreeScaleConnectionError"
                     ELSE "ThreeScaleException",
                     <<"Invalid response for url ">> \o get_auth_url \o <<": ">>
                     \o StrHTTPError(o.code))]

authorize_try(a0, x0, o) ==
    IF o.kind = "ok" THEN
        Ended(TRUE, Xml("str", o.body), "True", NoExc)
    ELSE IF o.kind = "HTTPError" THEN
        IF o.code = 409 THEN
            Ended(FALSE, Xml("str", o.body), "False", NoExc)
        ELSE
            Ended(a0, x0, "raise",
                  Exc("ThreeScaleServerError",
                      <<"Invalid response for url ">> \o get_auth_url \o <<": ">>
                      \o StrHTTPError(o.code)))
    ELSE IF o.kind = "URLError" THEN
        Ended(a0, x0, "raise",
              Exc("ThreeScaleConnectionError",
                  <<"Connection error ">> \o get_auth_url \o <<": ", "urlopen error">>))
    ELSE
        Ended(a0, x0, "raise",
              Exc("ThreeScaleException",
                  <<"Unknown error ">> \o get_auth_url \o <<": ", "error">>))

\* the whole method from the pair (a0, x0) that its first two statements
\* store: validate, call the Transport, classify
authorize_from(a0, x0, err, o) ==
    LET e == IF err # <<>>
             THEN Ended(a0, x0, "raise", validate_raise(err))
             ELSE authorize_try(a0, x0, o)
    IN  /\ authorized' = e.authorized
        /\ auth_xml' = e.auth_xml
        /\ ret' = e.ret
        /\ exc' = e.exc
        /\ calls' = (IF err # <<>> THEN 0 ELSE 1)
        /\ outcome' = (IF err # <<>> THEN NoOutcome ELSE o)
        /\ op' = "authorize"
        /\ resp' = NoResp
        /\ UNCHANGED <<creds, arg, data>>

\* authorize without its first two statements: the pair of the call before
\* stays when this call stores nothing
authorize_no_reset(err, o) == authorize_from(authorized, auth_xml, err, o)

\* self.authorized = False; self.auth_xml = None; and the rest
authorize(err, o) == authorize_from(FALSE, Xml("None", <<>>), err, o)

\* ThreeScaleAuthorize.authorize
Authorize ==
    /\ cls = "ThreeScaleAuthorize"
    /\ \E o \in GetOutcomes : authorize(validate_app(app_id, provider_key), o)

\* ThreeScaleAuthorizeUserKey.authorize
AuthorizeUserKey ==
    /\ cls = "ThreeScaleAuthorizeUserKey"
    /\ \E o \in GetOutcomes : authorize(validate_user_key(user_key, provider_key), o)

(***************************************************************************)
(* build_auth_response(), the same in both classes.                         *)
(***************************************************************************)
\* ThreeScaleAuthorizeResponse.add_usage_report for the element at j
usage_report(toks, j) ==
    [metric |-> Attrib(toks[j], "metric"),
     period |-> Attrib(toks[j], "period"),
     start_period |-> findtext(toks, j, "period_start"),
     end_period |-> findtext(toks, j, "period_end"),
     max_value |-> findtext(toks, j, "max_value"),
     current_value |-> findtext(toks, j, "current_value")]

\* the first attribute that xml.attrib[...] does not find, over the reports in
\* order; <<>> when every report has both
RECURSIVE missing_attrib(_, _)
missing_attrib(toks, reports) ==
    IF reports = <<>> THEN <<>>
    ELSE IF ~HasAttrib(toks[reports[1]], "metric") THEN <<"metric">>
    ELSE IF ~HasAttrib(toks[reports[1]], "period") THEN <<"period">>
    ELSE missing_attrib(toks, SubSeq(reports, 2, Len(reports)))

Built(r, e, x) == [ret |-> r, exc |-> e, resp |-> x]

\* build_auth_response without the test of self.authorized: the reason node
\* is always copied
build_auth_response_always_reason(isAuthorized, xmlText) ==
    IF xmlText.st # "str" \/ ~WellFormed(xmlText.toks) THEN
        Built("raise", Exc("ThreeScaleException", <<"Invalid xml ", "error">>), NoResp)
    ELSE
        LET toks == xmlText.toks
            reports == findall(toks, 1, "usage_reports", "usage_report")
            lack == missing_attrib(toks, reports)
        IN  IF lack # <<>> THEN Built("raise", Exc("KeyError", lack), NoResp)
            ELSE Built("result", NoExc,
                       [plan |-> findtext(toks, 1, "plan"),
                        reason |-> findtext(toks, 1, "reason"),
                        usage_reports |->
                            [x \in 1..Len(reports) |-> usage_report(toks, reports[x])]])

build_auth_response(isAuthorized, xmlText) ==
    IF xmlText.st # "str" \/ ~WellFormed(xmlText.toks) THEN
        Built("raise", Exc("ThreeScaleException", <<"Invalid xml ", "error">>), NoResp)
    ELSE
        LET toks == xmlText.toks
            reports == findall(toks, 1, "usage_reports", "usage_report")
            lack == missing_attrib(toks, reports)
        IN  IF lack # <<>> THEN Built("raise", Exc("KeyError", lack), NoResp)
            ELSE Built("result", NoExc,
                       [plan |-> findtext(toks, 1, "plan"),
                        reason |-> IF ~isAuthorized THEN findtext(toks, 1, "reason")
                                   ELSE None,
                        usage_reports |->
                            [x \in 1..Len(reports) |-> usage_report(toks, reports[x])]])

BuildAuthResponseStep ==
    LET b == build_auth_response(authorized, auth_xml)
    IN  /\ op' = "build_auth_response"
        /\ ret' = b.ret
        /\ exc' = b.exc
        /\ resp' = b.resp
        /\ calls' = 0
        /\ UNCHANGED <<creds, authorized, auth_xml, arg, data, outcome>>

\* ThreeScaleAuthorize.build_auth_response
BuildAuthResponse ==
    /\ cls = "ThreeScaleAuthorize"
    /\ BuildAuthResponseStep

\* ThreeScaleAuthorizeUserKey.build_auth_response
BuildAuthResponseUserKey ==
    /\ cls = "ThreeScaleAuthorizeUserKey"
    /\ BuildAuthResponseStep

(***************************************************************************)
(* Values of a transaction.  A dict is the sequence of its (key, value)     *)
(* pairs in the order keys() gives them, which the language leaves to the   *)
(* implementation.                                                          *)
(***************************************************************************)
Val(t, s, n, tm, d) == [t |-> t, s |-> s, n |-> n, tm |-> tm, d |-> d]
Str(chars) == Val("str", chars, 0, <<>>, <<>>)
Int(n) == Val("int", <<>>, n, <<>>, <<>>)
\* a time.struct_time: year, month, day, hour, minute, second
Time(tm) == Val("time", <<>>, 0, tm, <<>>)
\* a tuple of n entries that is no time tuple
Tuple(n) == Val("tuple", <<>>, n, <<>>, <<>>)
Dict(items) == Val("dict", <<>>, 0, <<>>, items)

\* str(value)
str(v) ==
    IF v.t = "str" THEN v.s
    ELSE IF v.t = "int" THEN Decimal(v.n)
    ELSE IF v.t = "time" THEN <<"time.struct_time">>
    ELSE IF v.t = "tuple" THEN <<"tuple">>
    ELSE <<"dict">>

\* urllib2.quote: letters, digits and '_.-/' stay, every other character
\* becomes %XX
Escapes ==
    [c \in {" ", ":", "+", "&", "=", "'"} |->
        IF c = " " THEN "%20" ELSE IF c = ":" THEN "%3A" ELSE IF c = "+" THEN "%2B"
        ELSE IF c = "&" THEN "%26" ELSE IF c = "=" THEN "%3D" ELSE "%27"]
quote(chars) ==
    [x \in 1..Len(chars) |->
        IF chars[x] \in DOMAIN Escapes THEN Escapes[chars[x]] ELSE chars[x]]

Pad2(n) == IF n < 10 THEN <<"0">> \o Decimal(n) ELSE Decimal(n)
\* time.strftime('%Y-%m-%d %H:%M:%S %z', ts); tz is the platform's %z
strftime(tm, tz) ==
    Decimal(tm[1]) \o <<"-">> \o Pad2(tm[2]) \o <<"-">> \o Pad2(tm[3]) \o <<" ">>
    \o Pad2(tm[4]) \o <<":">> \o Pad2(tm[5]) \o <<":">> \o Pad2(tm[6]) \o <<" ">> \o tz

(***************************************************************************)
(* class ThreeScaleReport: the encoder.  An encoding ends with the string   *)
(* or with an exception.                                                    *)
(***************************************************************************)
Returned(s) == [ok |-> TRUE, s |-> s, exc |-> NoExc]
Raised(e) == [ok |-> FALSE, s |-> <<>>, exc |-> e]

\* "%s[%s]=%s" % (prefix, key, value)
param(prefix, key, value) == prefix \o <<"[", key, "]", "=">> \o value

\* the except clause of the timestamp branch: the message is built with
\* "...'%s'..." % ts, which itself fails for a tuple that is not one value
invalid_timestamp(ts) ==
    IF ts.t = "tuple" /\ ts.n # 1
    THEN Exc("TypeError", <<"not all arguments converted during string formatting">>)
    ELSE Exc("ThreeScaleException",
             <<"Invalid timestamp '">> \o str(ts) \o <<"' specified in transaction">>)

RECURSIVE encode_recursive(_, _, _)
RECURSIVE encode_keys(_, _, _, _, _)
\* the loop over trans.keys(), from the k-th key on, new_value so far
encode_keys(prefix, items, k, new_value, tz) ==
    IF k > Len(items) THEN Returned(new_value)
    ELSE
        LET key == items[k][1]
            v == items[k][2]
        IN  IF key = "usage" THEN
                LET r == encode_recursive(prefix \o <<"[", "usage", "]">>, v, tz)
                IN  IF r.ok
                    THEN encode_keys(prefix, items, k + 1, new_value \o r.s, tz)
                    ELSE r
            ELSE IF key = "timestamp" THEN
                IF v.t = "time"
                THEN encode_keys(prefix, items, k + 1,
                                 new_value \o param(prefix, key, quote(strftime(v.tm, tz))),
                                 tz)
                ELSE Raised(invalid_timestamp(v))
            ELSE encode_keys(prefix, items, k + 1,
                             new_value \o param(prefix, key, quote(str(v))), tz)

\* trans.keys() exists for a dict only
encode_recursive(prefix, trans, tz) ==
    IF trans.t # "dict" THEN Raised(Exc("AttributeError", <<"keys">>))
    ELSE encode_keys(prefix, trans.d, 1, <<>>, tz)

\* transaction_prefix counting the transactions from 1
transaction_prefix_one_based(i) ==
    <<"&", "transactions", "[">> \o Decimal(i + 1) \o <<"]">>

\* "&transactions[%d]" % (i)
transaction_prefix(i) == <<"&", "transactions", "[">> \o Decimal(i) \o <<"]">>

\* the loop of encode_transactions from the element at position i (0-based)
RECURSIVE encode_from(_, _, _, _)
encode_from(elems, i, encoded, tz) ==
    IF i >= Len(elems) THEN Returned(encoded)
    ELSE LET r == encode_recursive(transaction_prefix(i), elems[i + 1], tz)
         IN  IF r.ok THEN encode_from(elems, i + 1, encoded \o r.s, tz) ELSE r

\* encode_transactions without the isinstance test: the for statement raises
\* on what is not iterable
encode_transactions_unchecked(transactions, tz) ==
    IF ~transactions.iterable
    THEN Raised(Exc("TypeError", <<"object is not iterable">>))
    ELSE encode_from(transactions.elems, 0, <<>>, tz)

encode_transactions(transactions, tz) ==
    IF ~transactions.iterable
    THEN Raised(Exc("ThreeScaleException", <<"Invalid transaction type">>))
    ELSE encode_from(transactions.elems, 0, <<>>, tz)

\* "provider_key=%s%s" % (self.provider_key, ...); str(None) is 'None'
build_post_data(providerKey, transactions, tz) ==
    LET r == encode_transactions(transactions, tz)
    IN  IF r.ok
        THEN Returned(<<"provider_key", "=">>
                      \o <<IF providerKey.some THEN providerKey.v ELSE "None">> \o r.s)
        ELSE r

(***************************************************************************)
(* ThreeScaleReport.report                                                  *)
(***************************************************************************)
Reported(r, e) == [ret |-> r, exc |-> e]

\* report_try with the URLError clause first: HTTPError is a subclass of
\* URLError, so that clause takes every HTTP error too
report_try_urlerror_first(o) ==
    IF o.kind = "ok" THEN Reported("True", NoExc)
    ELSE IF o.kind \in {"HTTPError", "URLError"} THEN
        Reported("raise",
                 Exc("ThreeScaleConnectionError",
                     <<"Connection error ">> \o get_report_url \o <<": ", "urlopen error">>))
    ELSE
        Reported("raise",
                 Exc("ThreeScaleException",
                     <<"Unknown error ">> \o get_report_url \o <<": ", "error">>))

\* the try block around urllib2.urlopen(req)
report_try(o) ==
    IF o.kind = "ok" THEN Reported("True", NoExc)
    ELSE IF o.kind = "HTTPError" THEN
        Reported("raise",
                 Exc("ThreeScaleServerError",
                     <<"Invalid response for url ">> \o get_report_url \o <<": ">>
                     \o StrHTTPError(o.code)))
    ELSE IF o.kind = "URLError" THEN
        Reported("raise",
                 Exc("ThreeScaleConnectionError",
                     <<"Connection error ">> \o get_report_url \o <<": ", "urlopen error">>))
    ELSE
        Reported("raise",
                 Exc("ThreeScaleException",
                     <<"Unknown error ">> \o get_report_url \o <<": ", "error">>))

\* the whole method: build the POST body (outside the try block), then post
report(transactions, o) ==
    LET d == build_post_data(provider_key, transactions, zone)
        e == IF d.ok THEN report_try(o) ELSE Reported("raise", d.exc)
    IN  /\ op' = "report"
        /\ arg' = transactions
        /\ data' = d.s
        /\ ret' = e.ret
        /\ exc' = e.exc
        /\ calls' = (IF d.ok THEN 1 ELSE 0)
        /\ outcome' = (IF d.ok THEN o ELSE NoOutcome)
        /\ resp' = NoResp
        /\ UNCHANGED <<creds, authorized, auth_xml>>

(***************************************************************************)
(* The inputs of report().                                                  *)
(***************************************************************************)
PostOutcomes ==
    {Outcome("ok", c, <<>>) : c \in OkCodes}
    \cup {Outcome("HTTPError", c, <<>>) : c \in ErrorCodes}
    \cup {Outcome("URLError", 0, <<>>), Outcome("other", 0, <<>>)}

\* what %z can give
TimeZones == {<<"+", "0", "0", "0", "0">>, <<"-", "0", "5", "0", "0">>}

Noon == Time(<<2021, 3, 4, 10, 20, 30>>)
Hits(n) == Dict(<< <<"hits", Int(n)>> >>)

A1 == Str(<<"a", "1">>)

\* transactions that encode
Encodable ==
    { \* {usage: {hits: 1}, app_id: 'a1'}, keys() giving usage first
      Dict(<< <<"usage", Hits(1)>>, <<"app_id", A1>> >>),
      \* a user key with a space, two metrics and a timestamp
      Dict(<< <<"user_key", Str(<<"u", " ", "k">>)>>,
              <<"usage", Dict(<< <<"hits", Int(2)>>, <<"storage", Int(10)>> >>)>>,
              <<"timestamp", Noon>> >>) }

Transactions ==
    Encodable \cup
    { \* the same dict as the first, keys() giving app_id first
      Dict(<< <<"app_id", A1>>, <<"usage", Hits(1)>> >>),
      \* the timestamp inside usage, as in the module's docstring
      Dict(<< <<"app_id", A1>>,
              <<"usage", Dict(<< <<"hits", Int(1)>>, <<"timestamp", Noon>> >>)>> >>),
      \* timestamps that are no point in time: a string, a pair
      Dict(<< <<"app_id", A1>>, <<"timestamp", Str(<<"n", "o", "w">>)>> >>),
      Dict(<< <<"app_id", A1>>, <<"timestamp", Tuple(2)>> >>),
      \* a usage that is a number, an element that is no dict
      Dict(<< <<"app_id", A1>>, <<"usage", Int(1)>> >>),
      Int(1) }

RECURSIVE SeqsUpTo(_, _)
SeqsUpTo(S, n) ==
    IF n = 0 THEN {<<>>}
    ELSE LET shorter == SeqsUpTo(S, n - 1)
         IN  shorter \cup {Append(q, e) : q \in shorter, e \in S}

\* the arguments of report(): something that is not iterable, or a sequence of
\* at most MaxTrans elements.  The encoder's loop ends at the first element
\* that raises, so only the last element is drawn from all of Transactions.
TransInputs ==
    {[iterable |-> FALSE, elems |-> <<>>], [iterable |-> TRUE, elems |-> <<>>]}
    \cup {[iterable |-> TRUE, elems |-> Append(q, e)] :
            q \in SeqsUpTo(Encodable, MaxTrans - 1), e \in Transactions}

\* ThreeScaleReport.report
Report ==
    /\ cls = "ThreeScaleReport"
    /\ \E t \in TransInputs, o \in PostOutcomes : report(t, o)

(***************************************************************************)
(* Construction and the specification.                                      *)
(***************************************************************************)
KeyValues == {None, Some(""), Some("pk")}

\* ThreeScale.__init__, called as ThreeScaleAuthorize(provider_key, app_id,
\* app_key), ThreeScaleAuthorizeUserKey(provider_key, user_key=...) and
\* ThreeScaleReport(provider_key).  authorize() creates self.authorized and
\* self.auth_xml; until then they are absent.
Init ==
    /\ cls \in {"ThreeScaleAuthorize", "ThreeScaleAuthorizeUserKey", "ThreeScaleReport"}
    /\ provider_key \in (IF cls = "ThreeScaleReport" THEN {None, Some("pk")}
                         ELSE KeyValues)
    /\ zone \in (IF cls = "ThreeScaleReport" THEN TimeZones
                 ELSE {<<"+", "0", "0", "0", "0">>})
    /\ app_id \in (IF cls = "ThreeScaleAuthorize" THEN {None, Some(""), Some("a1")}
                   ELSE {None})
    /\ app_key \in (IF cls = "ThreeScaleAuthorize" THEN {None, Some("k1")} ELSE {None})
    /\ user_key \in (IF cls = "ThreeScaleAuthorizeUserKey"
                     THEN {None, Some(""), Some("u1")} ELSE {None})
    /\ authorized = FALSE
    /\ auth_xml = Xml("absent", <<>>)
    /\ op = "none"
    /\ arg = NoArg
    /\ ret = "none"
    /\ exc = NoExc
    /\ calls = 0
    /\ outcome = NoOutcome
    /\ resp = NoResp
    /\ data = <<>>

Next ==
    \/ Validate
    \/ ValidateUserKey
    \/ Authorize
    \/ AuthorizeUserKey
    \/ BuildAuthResponse
    \/ BuildAuthResponseUserKey
    \/ Report

Spec == Init /\ [][Next]_vars

(***************************************************************************)
(* Properties.                                                              *)
(***************************************************************************)
IsAuthClass == cls \in {"ThreeScaleAuthorize", "ThreeScaleAuthorizeUserKey"}

\* a required field of the credential context is missing
MissingFields ==
    (IF ~Truthy(provider_key) THEN {"provider_key"} ELSE {})
    \cup (IF cls = "ThreeScaleAuthorize" /\ ~Truthy(app_id) THEN {"app_id"} ELSE {})
    \cup (IF cls = "ThreeScaleAuthorizeUserKey" /\ ~Truthy(user_key)
          THEN {"user_key"} ELSE {})

\* the first element named tag of an XML text, and its text
HasNode(body, tag) == \E i \in 1..Len(body) : body[i].k = "open" /\ body[i].name = tag
NodeText(body, tag) ==
    IF ~HasNode(body, tag) THEN None
    ELSE LET i == MinOf({j \in 1..Len(body) : body[j].k = "open" /\ body[j].name = tag})
         IN  Some(body[i + 1].text)

\* the bodies that are whole documents with every attribute in place
CompleteBodies ==
    {BodyOf(p, r, n, FALSE, FALSE) : p \in BOOLEAN, r \in BOOLEAN, n \in 0..MaxReports}

Got409 == outcome.kind = "HTTPError" /\ outcome.code = 409

\* C1: authorize() of either variant and report(), called on a credential
\* context that lacks providerKey or the key of the variant, end in a client
\* (validation) error without calling the Transport.
C1_MissingCredentialsNeverReachTransport ==
    (op \in {"authorize", "report"} /\ MissingFields # {})
        => (ret = "raise" /\ IsClientError(exc) /\ calls = 0)

\* C2: a 409 makes authorize() return False without an error and keep the
\* body; build_auth_response() then gives, for a complete body, a result
\* whose reason and plan are the texts of the body's reason and plan nodes,
\* the client being not authorized.
C2_DenialIsDecoded ==
    /\ (op = "authorize" /\ calls = 1 /\ Got409)
        => (ret = "False" /\ exc = NoExc /\ ~authorized
            /\ auth_xml = Xml("str", outcome.body))
    /\ (op = "build_auth_response" /\ Got409)
        => /\ outcome.body \in CompleteBodies => ret = "result"
           /\ ret = "result"
                => (/\ ~authorized
                    /\ resp.reason = NodeText(outcome.body, "reason")
                    /\ resp.plan = NodeText(outcome.body, "plan"))

C2_Witness ==
    /\ op = "build_auth_response"
    /\ Got409
    /\ ret = "result"
    /\ ~authorized
    /\ resp.reason = Some("usage limits exceeded")
    /\ resp.plan = Some("Basic")

\* C3: authorize() and report() classify what the Transport came back with: no
\* connection raises ThreeScaleConnectionError, a response with a status
\* that is not 2xx (409 on authorize apart) raises ThreeScaleServerError
\* whose message carries the status, a 2xx response raises nothing and the
\* call returns True.
C3_OutcomeClassified ==
    (op \in {"authorize", "report"} /\ calls = 1)
        => /\ outcome.kind = "URLError"
                => (ret = "raise" /\ exc.cls = "ThreeScaleConnectionError")
           /\ (outcome.kind = "HTTPError" /\ ~(op = "authorize" /\ outcome.code = 409))
                => (/\ ret = "raise"
                    /\ exc.cls = "ThreeScaleServerError"
                    /\ Contains(exc.msg, Decimal(outcome.code)))
           /\ outcome.kind = "ok" => (ret = "True" /\ exc = NoExc)

C3_Witness ==
    /\ op = "report"
    /\ calls = 1
    /\ Got409
    /\ ret = "raise"
    /\ exc.cls = "ThreeScaleServerError"

\* C4 as claimed: a result of build_auth_response() has its reason set if and
\* only if the client is not authorized.
C4_ReasonIffNotAuthorized ==
    (op = "build_auth_response" /\ ret = "result")
        => (resp.reason.some <=> ~authorized)

\* C4 as amended: the reason is set only if the client is not authorized (after
\* a 2xx it is unset even when the body has a reason node); after a 409 it is
\* the text of the body's reason node, and unset when the body has none.
C4_ReasonOnlyIfNotAuthorized ==
    (op = "build_auth_response" /\ ret = "result")
        => /\ resp.reason.some => ~authorized
           /\ authorized => resp.reason = None
           /\ ~authorized => resp.reason = NodeText(auth_xml.toks, "reason")

C4_Witness ==
    /\ op = "build_auth_response"
    /\ ret = "result"
    /\ authorized
    /\ HasNode(auth_xml.toks, "reason")
    /\ resp.reason = None

(***************************************************************************)
(* The POST body as parameters.                                             *)
(***************************************************************************)
Bracket(k) == <<"[", k, "]">>
ParamPrefix(i) == <<"&", "transactions", "[">> \o Decimal(i) \o <<"]">>

\* the url-quoted value a key stands for: the formatted time under the key
\* timestamp, the quoted str() under any other
ValueOf(k, v) == IF k = "timestamp" THEN quote(strftime(v.tm, zone)) ELSE quote(str(v))

\* the leaves of the argument: <<i, x, 0>> is the x-th key of the transaction
\* at position i (from 0), <<i, x, y>> the y-th metric of its usage
LeavesOf(i, d) ==
    {<<i, x, 0>> : x \in {z \in 1..Len(d) : d[z][1] # "usage"}} \cup
    UNION {{<<i, x, y>> : y \in 1..Len(d[x][2].d)} :
              x \in {z \in 1..Len(d) : d[z][1] = "usage"}}
Leaves(elems) == UNION {LeavesOf(i, elems[i + 1].d) : i \in 0..(Len(elems) - 1)}
ParamAt(elems, q) ==
    LET item == elems[q[1] + 1].d[q[2]] IN
    IF q[3] = 0
    THEN ParamPrefix(q[1]) \o Bracket(item[1]) \o <<"=">> \o ValueOf(item[1], item[2])
    ELSE LET m == item[2].d[q[3]] IN
         ParamPrefix(q[1]) \o Bracket("usage") \o Bracket(m[1]) \o <<"=">>
         \o ValueOf(m[1], m[2])

\* where p stands in body as a whole parameter
ParamPositions(body, p) ==
    {x \in Occurrences(body, p) : x + Len(p) > Len(body) \/ body[x + Len(p)] = "&"}
Earlier(q, r) ==
    \/ q[1] < r[1]
    \/ q[1] = r[1] /\ q[2] < r[2]
    \/ q[1] = r[1] /\ q[2] = r[2] /\ q[3] < r[3]

\* report() got as far as the Transport, so build_post_data() returned
Posted == op = "report" /\ calls = 1

\* provider_key=<providerKey>, then one parameter per leaf and no other, the
\* transactions in sequence order under the prefix transactions[i], the keys of
\* a transaction in the order keys() gave them
PostDataShape ==
    Posted =>
        LET L == Leaves(arg.elems) IN
        /\ SubSeq(data, 1, 3) =
              <<"provider_key", "=", IF provider_key.some THEN provider_key.v ELSE "None">>
        /\ Cardinality({x \in 1..Len(data) : data[x] = "&"}) = Cardinality(L)
        /\ \A q \in L : Cardinality(ParamPositions(data, ParamAt(arg.elems, q))) = 1
        /\ \A q, r \in L :
              Earlier(q, r) =>
                  \A x \in ParamPositions(data, ParamAt(arg.elems, q)),
                     y \in ParamPositions(data, ParamAt(arg.elems, r)) : x < y

\* the argument [{app_id: 'a1', usage: {hits: 1}}], whichever key comes first
IsExample(a) ==
    /\ a.iterable
    /\ Len(a.elems) = 1
    /\ a.elems[1].t = "dict"
    /\ Len(a.elems[1].d) = 2
    /\ {a.elems[1].d[x] : x \in 1..2} = {<<"app_id", A1>>, <<"usage", Hits(1)>>}

\* provider_key=pk&transactions[0][app_id]=a1&transactions[0][usage][hits]=1
ExampleAppFirst ==
    <<"provider_key", "=", "pk">>
    \o <<"&", "transactions", "[", "0", "]", "[", "app_id", "]", "=", "a", "1">>
    \o <<"&", "transactions", "[", "0", "]", "[", "usage", "]", "[", "hits", "]", "=", "1">>
\* provider_key=pk&transactions[0][usage][hits]=1&transactions[0][app_id]=a1
ExampleUsageFirst ==
    <<"provider_key", "=", "pk">>
    \o <<"&", "transactions", "[", "0", "]", "[", "usage", "]", "[", "hits", "]", "=", "1">>
    \o <<"&", "transactions", "[", "0", "]", "[", "app_id", "]", "=", "a", "1">>

\* C5 as claimed: the POST body has one block per transaction in sequence
\* order and one parameter per key and per metric, and the example
\* [{app_id: 'a1', usage: {hits: 1}}] with provider key pk yields exactly
\* provider_key=pk&transactions[0][app_id]=a1&transactions[0][usage][hits]=1.
C5_ExampleIsExact ==
    /\ PostDataShape
    /\ (Posted /\ provider_key = Some("pk") /\ IsExample(arg)) => data = ExampleAppFirst

\* C5 as amended: the same shape, the parameters of a block in the order in
\* which keys() gives the transaction's keys, the timestamp key standing for
\* the formatted time at either level; the example yields the stated string
\* when keys() gives app_id first and the string with the two transaction
\* parameters exchanged when it gives usage first.
C5_PostDataFollowsKeyOrder ==
    /\ PostDataShape
    /\ (Posted /\ provider_key = Some("pk") /\ IsExample(arg))
        => data = (IF arg.elems[1].d[1][1] = "app_id" THEN ExampleAppFirst
                   ELSE ExampleUsageFirst)

C5_Witness ==
    /\ Posted
    /\ provider_key = Some("pk")
    /\ Len(arg.elems) = 2
    /\ IsExample([iterable |-> TRUE, elems |-> <<arg.elems[2]>>])
    /\ arg.elems[2].d[1][1] = "usage"
    /\ Contains(data, ParamPrefix(1) \o Bracket("usage") \o Bracket("hits") \o <<"=", "1">>
                      \o ParamPrefix(1) \o Bracket("app_id") \o <<"=", "a", "1">>)

\* C6: report() with an argument that is not iterable ends in the client's
\* validation error and never calls the Transport.
C6_NonIterableFailsBeforeTransport ==
    (op = "report" /\ ~arg.iterable)
        => /\ ret = "raise"
           /\ exc = Exc("ThreeScaleException", <<"Invalid transaction type">>)
           /\ calls = 0
           /\ outcome = NoOutcome

C6_Witness ==
    /\ op = "report"
    /\ ~arg.iterable
    /\ ret = "raise"
    /\ calls = 0

\* the transaction has a timestamp that is no point in time
BadTimestamp(e) ==
    /\ e.t = "dict"
    /\ \E x \in 1..Len(e.d) : e.d[x][1] = "timestamp" /\ e.d[x][2].t # "time"

\* C7: when the transaction at position i has a timestamp that is no point in
\* time (the ones before it encode), report() fails with the client's
\* validation error and the error names the index i.
C7_BadTimestampNamesIndex ==
    op = "report" =>
        \A i \in 1..Len(arg.elems) :
            (BadTimestamp(arg.elems[i]) /\ \A j \in 1..(i - 1) : arg.elems[j] \in Encodable)
                => /\ ret = "raise"
                   /\ exc.cls = "ThreeScaleException"
                   /\ Contains(exc.msg, Decimal(i - 1))

\* C8: whatever a public method raises is the client's base error or one of
\* its subclasses.
C8_OnlyClientErrorsEscape ==
    ret = "raise" => IsClientError(exc)

\* the text validate() has for a field
FieldText(f) ==
    IF f = "app_id" THEN "App Id not defined"
    ELSE IF f = "user_key" THEN "User key defined"
    ELSE "Provider key not defined"

C10_PairIsThatOfTheLastCall ==
    (IsAuthClass /\ auth_xml.st # "absent")
        => /\ outcome.kind = "ok" <=> authorized
           /\ Got409 <=> (~authorized /\ auth_xml.st = "str")
           /\ auth_xml.st = "str" => auth_xml.toks = outcome.body
           /\ (outcome.kind # "ok" /\ ~Got409)
                => (~authorized /\ auth_xml = Xml("None", <<>>))
           /\ op = "authorize" => (ret = "raise" <=> auth_xml.st = "None")
           /\ (op = "build_auth_response" /\ auth_xml.st = "None")
                => (ret = "raise" /\ IsClientError(exc))
           /\ (op = "build_auth_response" /\ ret = "result")
                => resp.plan = NodeText(outcome.body, "plan")

C10_Witness ==
    /\ op = "build_auth_response"
    /\ outcome.kind = "HTTPError"
    /\ outcome.code = 500
    /\ auth_xml = Xml("None", <<>>)
    /\ ret = "raise"
    /\ IsClientError(exc)

====
